---- MODULE Spec2Model ----
(***************************************************************************)
(* Model of cmd/ctl/pkg/inspect/secret/secret.go: the three "Debugging"    *)
(* checks of `kubectl cert-manager inspect secret`:                        *)
(*   describeCRL      the CRL check over cert.CRLDistributionPoints        *)
(*   describeOCSP     the OCSP check against the selected issuer           *)
(*   describeTrusted  the trust verdict against the system pool            *)
(* Each check has a specification of its own (SpecCRL, SpecOCSP,           *)
(* SpecTrust); the variables of the other two checks stay at rest.         *)
(***************************************************************************)
EXTENDS Naturals, Sequences, FiniteSets

VARIABLES
    crlDPs,        \* cert.CRLDistributionPoints of the inspected leaf
    crlPC,         \* position in describeCRL: "entry", "loop", "done", "rest"
    crlIdx,        \* index of the range loop over crlDPs (1-based)
    hasChecked,    \* local hasChecked of describeCRL
    crlCalls,      \* the calls made to checkCRLValidCert, in order
    crlResult,     \* the value describeCRL returns
    ocspCA,        \* ca argument of describeOCSP (secret.Data["ca.crt"])
    ocspInter,     \* intermediates argument of describeOCSP
    ocspPC,        \* position in describeOCSP: "entry", "decoded", "done", "rest"
    ocspIssuer,    \* the bytes handed to DecodeX509CertificateBytes
    ocspCalls,     \* the calls made to checkOCSPValidCert, in order
    ocspResult,    \* the value describeOCSP returns
    leaf,          \* the leaf certificate under inspection
    tInter,        \* per evaluation: intermediates given to describeDebugging
    tCA,           \* per evaluation: ca given to describeDebugging
    tPC,           \* per evaluation: position in describeTrusted
    tIdx,          \* per evaluation: index of the range loop over intermediates
    poolRef,       \* per evaluation: the *x509.CertPool held in systemPool
    heap,          \* the contents of every CertPool object, by reference
    tResult        \* per evaluation: the value describeTrusted returns

crlVars == <<crlDPs, crlPC, crlIdx, hasChecked, crlCalls, crlResult>>
ocspVars == <<ocspCA, ocspInter, ocspPC, ocspIssuer, ocspCalls, ocspResult>>
trustVars == <<leaf, tInter, tCA, tPC, tIdx, poolRef, heap, tResult>>
vars == <<crlVars, ocspVars, trustVars>>

\* ------------------------------------------------------------ bounds
MaxURLs == 3
MaxIntermediates == 2

Nil == "nil"
None == [text |-> "", arg |-> ""]

\* Sequences over S of length 0..n
RECURSIVE SeqsUpTo(_, _)
SeqsUpTo(S, n) ==
    IF n = 0 THEN {<<>>}
    ELSE LET shorter == SeqsUpTo(S, n - 1)
         IN shorter \cup {Append(s, x) : s \in {t \in shorter : Len(t) = n - 1}, x \in S}

\* ------------------------------------------------------------ URLs
\* The distribution-point strings a certificate may carry.
URLs == {"https://a/crl", "ldap://b/crl", "HTTPS://c/crl", "http://d/crl",
         "ftp://e/crl", ":bad"}

\* The text before the first ':' of a well-formed URL (url.getScheme); ":bad"
\* has an empty scheme before ':' and url.Parse reports "missing protocol scheme".
RawScheme(u) ==
    CASE u = "https://a/crl" -> "https"
      [] u = "ldap://b/crl"  -> "ldap"
      [] u = "HTTPS://c/crl" -> "HTTPS"
      [] u = "http://d/crl"  -> "http"
      [] u = "ftp://e/crl"   -> "ftp"
      [] OTHER               -> ""

\* strings.ToLower on the schemes above
ToLower(s) ==
    CASE s = "HTTPS" -> "https"
      [] OTHER       -> s

\* url.Parse: an error for a malformed URL, otherwise the lower-cased scheme.
URLParse(u) ==
    IF u = ":bad"
    THEN [err |-> "missing protocol scheme", Scheme |-> ""]
    ELSE [err |-> Nil, Scheme |-> ToLower(RawScheme(u))]

\* Faulty variant: the scheme filter also lets plain http through.
SkippedAlsoHTTP(u) ==
    LET p == URLParse(u)
    IN \/ p.err # Nil
       \/ (p.Scheme # "ldap" /\ p.Scheme # "https" /\ p.Scheme # "http")

\* The two `continue` conditions of the loop body.
Skipped(u) ==
    LET p == URLParse(u)
    IN \/ p.err # Nil
       \/ (p.Scheme # "ldap" /\ p.Scheme # "https")

\* ------------------------------------------------------------ describeCRL
\* What checkCRLValidCert(cert, crlURL) may hand back: (valid, err).
CRLErrs == {Nil, "fetch failed", "parse failed"}
CRLReturns == [valid : BOOLEAN, err : CRLErrs]

\* Faulty variant: an error of the check is swallowed and the loop goes on.
AfterCheckIgnoreErr(u, ret) ==
    IF ret.err = Nil /\ ~ret.valid
    THEN [return |-> TRUE, out |-> [text |-> "Revoked by", arg |-> u]]
    ELSE [return |-> FALSE, out |-> None]

\* Faulty variant: a revoked answer is swallowed and the loop goes on.
AfterCheckIgnoreRevoked(u, ret) ==
    IF ret.err # Nil
    THEN [return |-> TRUE, out |-> [text |-> "Cannot check CRL:", arg |-> ret.err]]
    ELSE [return |-> FALSE, out |-> None]

\* The body of the loop after the call: return on error, return on revoked,
\* otherwise go on with the next URL.
AfterCheck(u, ret) ==
    IF ret.err # Nil
    THEN [return |-> TRUE, out |-> [text |-> "Cannot check CRL:", arg |-> ret.err]]
    ELSE IF ~ret.valid
    THEN [return |-> TRUE, out |-> [text |-> "Revoked by", arg |-> u]]
    ELSE [return |-> FALSE, out |-> None]

\* Faulty variant: the hasChecked test is dropped.
AfterLoopAlwaysValid(checked) == [text |-> "Valid", arg |-> ""]

\* The statements after the loop.
AfterLoop(checked) ==
    IF ~checked
    THEN [text |-> "No CRL endpoints we support found", arg |-> ""]
    ELSE [text |-> "Valid", arg |-> ""]

CRLInit ==
    /\ crlDPs \in SeqsUpTo(URLs, MaxURLs)
    /\ crlPC = "entry"
    /\ crlIdx = 1
    /\ hasChecked = FALSE
    /\ crlCalls = <<>>
    /\ crlResult = None

CRLRest ==
    /\ crlDPs = <<>>
    /\ crlPC = "rest"
    /\ crlIdx = 1
    /\ hasChecked = FALSE
    /\ crlCalls = <<>>
    /\ crlResult = None

\* The length test and the initialisation of hasChecked.
describeCRLEntry ==
    /\ crlPC = "entry"
    /\ IF Len(crlDPs) < 1
       THEN /\ crlResult' = [text |-> "No CRL endpoints set", arg |-> ""]
            /\ crlPC' = "done"
       ELSE /\ crlResult' = crlResult
            /\ crlPC' = "loop"
    /\ hasChecked' = FALSE
    /\ crlIdx' = 1
    /\ UNCHANGED <<crlDPs, crlCalls>>

\* One iteration that ends in `continue` before the call.
describeCRLSkip ==
    /\ crlPC = "loop"
    /\ crlIdx <= Len(crlDPs)
    /\ Skipped(crlDPs[crlIdx])
    /\ crlIdx' = crlIdx + 1
    /\ UNCHANGED <<crlDPs, crlPC, hasChecked, crlCalls, crlResult>>

\* One iteration that reaches checkCRLValidCert.
describeCRLCheck ==
    /\ crlPC = "loop"
    /\ crlIdx <= Len(crlDPs)
    /\ ~Skipped(crlDPs[crlIdx])
    /\ hasChecked' = TRUE
    /\ \E ret \in CRLReturns :
          LET u == crlDPs[crlIdx]
              r == AfterCheck(u, ret)
          IN /\ crlCalls' = Append(crlCalls,
                                   [idx |-> crlIdx, url |-> u,
                                    valid |-> ret.valid, err |-> ret.err])
             /\ IF r.return
                THEN /\ crlResult' = r.out
                     /\ crlPC' = "done"
                     /\ crlIdx' = crlIdx
                ELSE /\ crlResult' = crlResult
                     /\ crlPC' = "loop"
                     /\ crlIdx' = crlIdx + 1
    /\ UNCHANGED crlDPs

\* The loop is exhausted.
describeCRLEnd ==
    /\ crlPC = "loop"
    /\ crlIdx > Len(crlDPs)
    /\ crlResult' = AfterLoop(hasChecked)
    /\ crlPC' = "done"
    /\ UNCHANGED <<crlDPs, crlIdx, hasChecked, crlCalls>>

\* ------------------------------------------------------------ byte slices
\* The byte slices a secret may hold: tls.crt blocks after the leaf
\* (intermediates) and ca.crt (ca).
PEMBlocks == {"I1.pem", "I3.pem", "bad.pem"}
CABytes == {"", "CA.pem", "junk", "x"}

\* len(b) for the slices above: "" is empty, "x" is a single byte.
ByteLen(b) ==
    CASE b = ""  -> 0
      [] b = "x" -> 1
      [] OTHER   -> 6

\* The certificates of the model: subject and issuer. R is a root of the system
\* store; U is a root nobody trusts; X is the self-signed CA of ca.crt; I1 is
\* signed by R, I3 by U.
IssuerOf(subject) ==
    CASE subject = "I1" -> "R"
      [] subject = "I3" -> "U"
      [] OTHER          -> subject

\* pki.DecodeX509CertificateBytes: the certificate, or an error.
DecodeX509CertificateBytes(b) ==
    CASE b = "I1.pem" -> [err |-> Nil, cert |-> "I1"]
      [] b = "I3.pem" -> [err |-> Nil, cert |-> "I3"]
      [] b = "CA.pem" -> [err |-> Nil, cert |-> "X"]
      [] OTHER        -> [err |-> "error decoding certificate PEM block", cert |-> ""]

\* ------------------------------------------------------------ describeOCSP
\* What checkOCSPValidCert(cert, issuerCert) may hand back: (valid, err).
OCSPErrs == {Nil, "request failed", "malformed response"}
OCSPReturns == [valid : BOOLEAN, err : OCSPErrs]

\* The first statement: ca goes in front of the intermediates.
IssuerCandidates(ca, intermediates) ==
    IF ByteLen(ca) > 1 THEN <<ca>> \o intermediates ELSE intermediates

\* intermediates[len(intermediates)-1]
SelectIssuer(candidates) == candidates[Len(candidates)]

\* Faulty variant: an error of the exchange is dropped and valid alone decides.
AfterOCSPIgnoreErr(ret) ==
    IF ~ret.valid
    THEN [text |-> "Marked as revoked", arg |-> ""]
    ELSE [text |-> "valid", arg |-> ""]

\* The statements after the call.
AfterOCSP(ret) ==
    IF ret.err # Nil
    THEN [text |-> "Cannot check OCSP:", arg |-> ret.err]
    ELSE IF ~ret.valid
    THEN [text |-> "Marked as revoked", arg |-> ""]
    ELSE [text |-> "valid", arg |-> ""]

OCSPInit ==
    /\ ocspCA \in CABytes
    /\ ocspInter \in SeqsUpTo(PEMBlocks, MaxIntermediates)
    /\ ocspPC = "entry"
    /\ ocspIssuer = ""
    /\ ocspCalls = <<>>
    /\ ocspResult = None

OCSPRest ==
    /\ ocspCA = ""
    /\ ocspInter = <<>>
    /\ ocspPC = "rest"
    /\ ocspIssuer = ""
    /\ ocspCalls = <<>>
    /\ ocspResult = None

\* Issuer selection and decoding.
describeOCSPIssuer ==
    /\ ocspPC = "entry"
    /\ LET candidates == IssuerCandidates(ocspCA, ocspInter)
       IN IF Len(candidates) < 1
          THEN /\ ocspResult' =
                     [text |-> "Cannot check OCSP, does not have a CA or intermediate certificate provided",
                      arg |-> ""]
               /\ ocspPC' = "done"
               /\ ocspIssuer' = ocspIssuer
          ELSE LET d == DecodeX509CertificateBytes(SelectIssuer(candidates))
               IN /\ ocspIssuer' = SelectIssuer(candidates)
                  /\ IF d.err # Nil
                     THEN /\ ocspResult' =
                                [text |-> "Cannot parse intermediate certificate:",
                                 arg |-> d.err]
                          /\ ocspPC' = "done"
                     ELSE /\ ocspResult' = ocspResult
                          /\ ocspPC' = "decoded"
    /\ UNCHANGED <<ocspCA, ocspInter, ocspCalls>>

\* The call of checkOCSPValidCert and the mapping of what it returns.
describeOCSPCheck ==
    /\ ocspPC = "decoded"
    /\ \E ret \in OCSPReturns :
          /\ ocspCalls' = Append(ocspCalls,
                                 [issuer |-> DecodeX509CertificateBytes(ocspIssuer).cert,
                                  valid |-> ret.valid, err |-> ret.err])
          /\ ocspResult' = AfterOCSP(ret)
    /\ ocspPC' = "done"
    /\ UNCHANGED <<ocspCA, ocspInter, ocspIssuer>>

\* ------------------------------------------------------------ describeTrusted
\* The evaluations that may run side by side, and the CertPool objects: 0 is
\* the process-wide system store, p is the pool evaluation p owns.
Evals == {1, 2}
Refs == {0} \cup Evals
NoRef == 99

\* The roots the platform trusts.
SystemRoots == {"R"}

\* The leaves under inspection: who signed them, and whether clock.Now() lies
\* outside their validity window.
Leaves == {[issuer |-> "R", expired |-> FALSE],
           [issuer |-> "I1", expired |-> FALSE],
           [issuer |-> "I3", expired |-> FALSE],
           [issuer |-> "X", expired |-> FALSE],
           [issuer |-> "R", expired |-> TRUE]}

\* Faulty variant: SystemCertPool hands out the shared store itself.
SystemCertPoolShared(p) == 0

\* x509.SystemCertPool: the reference it returns names a fresh pool, a copy of
\* the system store, owned by the caller.
SystemCertPool(p) == p

\* (*CertPool).AppendCertsFromPEM: the certificates found in the block; a block
\* that does not decode adds nothing.
AppendCertsFromPEM(b) ==
    LET d == DecodeX509CertificateBytes(b)
    IN IF d.err = Nil THEN {d.cert} ELSE {}

\* Path building of (*Certificate).Verify from a certificate signed by `issuer`:
\* a path ends at any certificate of opts.Roots and may pass through
\* certificates of opts.Intermediates.
RECURSIVE ChainsTo(_, _, _)
ChainsTo(issuer, roots, inters) ==
    \/ issuer \in roots
    \/ /\ issuer \in inters
       /\ ChainsTo(IssuerOf(issuer), roots, inters \ {issuer})

\* cert.Verify(opts): nil, or an error.
Verify(cert, opts) ==
    IF cert.expired
    THEN "certificate has expired or is not yet valid"
    ELSE IF ChainsTo(cert.issuer, opts.Roots, opts.Intermediates)
    THEN Nil
    ELSE "certificate signed by unknown authority"

\* The VerifyOptions describeTrusted builds: Roots is the pool, and no
\* Intermediates are set.
VerifyOptions(pool) == [Roots |-> pool, Intermediates |-> {}]

\* What describeDebugging hands to describeTrusted: the certificate and the
\* intermediates; ca is handed to describeOCSP alone.
TrustedArgs(p) == [cert |-> leaf, intermediates |-> tInter[p]]

TrustInit ==
    /\ leaf \in Leaves
    /\ tInter \in [Evals -> SeqsUpTo(PEMBlocks, MaxIntermediates)]
    /\ tCA \in [Evals -> {"", "CA.pem"}]
    /\ tPC = [p \in Evals |-> "entry"]
    /\ tIdx = [p \in Evals |-> 1]
    /\ poolRef = [p \in Evals |-> NoRef]
    /\ heap = [r \in Refs |-> IF r = 0 THEN SystemRoots ELSE {}]
    /\ tResult = [p \in Evals |-> None]

TrustRest ==
    /\ leaf = [issuer |-> "R", expired |-> FALSE]
    /\ tInter = [p \in Evals |-> <<>>]
    /\ tCA = [p \in Evals |-> ""]
    /\ tPC = [p \in Evals |-> "rest"]
    /\ tIdx = [p \in Evals |-> 1]
    /\ poolRef = [p \in Evals |-> NoRef]
    /\ heap = [r \in Refs |-> IF r = 0 THEN SystemRoots ELSE {}]
    /\ tResult = [p \in Evals |-> None]

\* systemPool, err := x509.SystemCertPool()
describeTrustedPool(p) ==
    /\ tPC[p] = "entry"
    /\ \E err \in {Nil, "system root pool is not available"} :
          IF err # Nil
          THEN /\ tResult' = [tResult EXCEPT ![p] =
                                 [text |-> "Error getting system CA store:", arg |-> err]]
               /\ tPC' = [tPC EXCEPT ![p] = "done"]
               /\ UNCHANGED <<poolRef, heap>>
          ELSE /\ poolRef' = [poolRef EXCEPT ![p] = SystemCertPool(p)]
               /\ heap' = [heap EXCEPT ![SystemCertPool(p)] = heap[0]]
               /\ tPC' = [tPC EXCEPT ![p] = "loop"]
               /\ UNCHANGED tResult
    /\ tIdx' = [tIdx EXCEPT ![p] = 1]
    /\ UNCHANGED <<leaf, tInter, tCA>>

\* One iteration of the loop over intermediates.
describeTrustedAppend(p) ==
    /\ tPC[p] = "loop"
    /\ tIdx[p] <= Len(TrustedArgs(p).intermediates)
    /\ heap' = [heap EXCEPT ![poolRef[p]] =
                   @ \cup AppendCertsFromPEM(TrustedArgs(p).intermediates[tIdx[p]])]
    /\ tIdx' = [tIdx EXCEPT ![p] = @ + 1]
    /\ UNCHANGED <<leaf, tInter, tCA, tPC, poolRef, tResult>>

\* cert.Verify and the verdict.
describeTrustedVerify(p) ==
    /\ tPC[p] = "loop"
    /\ tIdx[p] > Len(TrustedArgs(p).intermediates)
    /\ LET err == Verify(TrustedArgs(p).cert, VerifyOptions(heap[poolRef[p]]))
       IN tResult' = [tResult EXCEPT ![p] =
                         IF err = Nil THEN [text |-> "yes", arg |-> ""]
                         ELSE [text |-> "no:", arg |-> err]]
    /\ tPC' = [tPC EXCEPT ![p] = "done"]
    /\ UNCHANGED <<leaf, tInter, tCA, tIdx, poolRef, heap>>

\* ------------------------------------------------------------ specifications
InitCRL == CRLInit /\ OCSPRest /\ TrustRest
NextCRL ==
    \/ describeCRLEntry /\ UNCHANGED <<ocspVars, trustVars>>
    \/ describeCRLSkip /\ UNCHANGED <<ocspVars, trustVars>>
    \/ describeCRLCheck /\ UNCHANGED <<ocspVars, trustVars>>
    \/ describeCRLEnd /\ UNCHANGED <<ocspVars, trustVars>>
SpecCRL == InitCRL /\ [][NextCRL]_vars

InitOCSP == CRLRest /\ OCSPInit /\ TrustRest
NextOCSP ==
    \/ describeOCSPIssuer /\ UNCHANGED <<crlVars, trustVars>>
    \/ describeOCSPCheck /\ UNCHANGED <<crlVars, trustVars>>
SpecOCSP == InitOCSP /\ [][NextOCSP]_vars

InitTrust == CRLRest /\ OCSPRest /\ TrustInit
NextTrust ==
    \E p \in Evals :
        \/ describeTrustedPool(p) /\ UNCHANGED <<crlVars, ocspVars>>
        \/ describeTrustedAppend(p) /\ UNCHANGED <<crlVars, ocspVars>>
        \/ describeTrustedVerify(p) /\ UNCHANGED <<crlVars, ocspVars>>
SpecTrust == InitTrust /\ [][NextTrust]_vars

\* ------------------------------------------------------------ vocabulary of the properties
\* The distribution points with a supported scheme (https or ldap, in any
\* letter case) that parse as URLs.
SupportedURLs == {"https://a/crl", "ldap://b/crl", "HTTPS://c/crl"}

\* The positions of crlDPs holding a supported URL, in the order supplied.
SupportedIdx ==
    SelectSeq([i \in 1..Len(crlDPs) |-> i], LAMBDA i : crlDPs[i] \in SupportedURLs)

\* The positions of crlDPs that were checked, in the order of the calls.
CheckedIdx == [k \in 1..Len(crlCalls) |-> crlCalls[k].idx]

IsPrefix(a, b) == Len(a) <= Len(b) /\ \A k \in 1..Len(a) : a[k] = b[k]

CallFailed(c) == c.err # Nil
CallRevoked(c) == c.err = Nil /\ ~c.valid
CallClean(c) == c.err = Nil /\ c.valid

\* The outcome a returned text stands for.
Status(r) ==
    CASE r.text \in {"Valid", "valid"} -> "Valid"
      [] r.text \in {"Revoked by", "Marked as revoked"} -> "Revoked"
      [] r.text \in {"Cannot check CRL:", "Cannot check OCSP:",
                     "Cannot parse intermediate certificate:"} -> "Unknown"
      [] r.text \in {"No CRL endpoints set", "No CRL endpoints we support found",
                     "Cannot check OCSP, does not have a CA or intermediate certificate provided"}
            -> "NotApplicable"
      [] OTHER -> "none"

\* ------------------------------------------------------------ C1
\* C1: a call of the CRL check that fails (fetch or parse) is the last call ever
\* made: describeCRL has returned with it, the result is the Unknown outcome
\* "Cannot check CRL: <err>", never Valid or Revoked, and no later URL is checked.
C1_ErrorReturnsUnknownImmediately ==
    \A k \in 1..Len(crlCalls) :
        CallFailed(crlCalls[k]) =>
            /\ k = Len(crlCalls)
            /\ crlPC = "done"
            /\ crlResult = [text |-> "Cannot check CRL:", arg |-> crlCalls[k].err]
            /\ Status(crlResult) = "Unknown"

\* A failed call was made while a supported URL was still waiting behind it.
C1_Witness ==
    /\ crlPC = "done"
    /\ Len(crlCalls) >= 2
    /\ CallFailed(crlCalls[Len(crlCalls)])
    /\ \E j \in 1..Len(crlDPs) :
          j > crlCalls[Len(crlCalls)].idx /\ crlDPs[j] \in SupportedURLs

\* ------------------------------------------------------------ C2
\* C2: the supported URLs are checked strictly in the order supplied, none left
\* out; every call but the last found no match; a call that finds the serial is
\* the last one and the result is "Revoked by" exactly that URL; a Revoked
\* result always comes from such a call.
C2_InOrderFirstRevokedWins ==
    /\ IsPrefix(CheckedIdx, SupportedIdx)
    /\ \A k \in 1..Len(crlCalls) :
          /\ crlCalls[k].url = crlDPs[crlCalls[k].idx]
          /\ k < Len(crlCalls) => CallClean(crlCalls[k])
          /\ CallRevoked(crlCalls[k]) =>
                /\ k = Len(crlCalls)
                /\ crlPC = "done"
                /\ crlResult = [text |-> "Revoked by", arg |-> crlCalls[k].url]
    /\ Status(crlResult) = "Revoked" =>
          /\ Len(crlCalls) >= 1
          /\ CallRevoked(crlCalls[Len(crlCalls)])
          /\ crlResult.arg = crlCalls[Len(crlCalls)].url

\* Revoked by the second supported URL, with a third one never checked.
C2_Witness ==
    /\ crlPC = "done"
    /\ Status(crlResult) = "Revoked"
    /\ Len(crlCalls) = 2
    /\ Len(SupportedIdx) = 3

\* ------------------------------------------------------------ C3
\* C3: describeCRL returns Valid exactly when the list holds a supported URL and
\* every supported URL was checked and found clean; before it returns there is
\* no result.
C3_ValidIffAllSupportedClean ==
    /\ crlPC # "done" => crlResult = None
    /\ crlPC = "done" =>
          (Status(crlResult) = "Valid"
              <=> /\ Len(SupportedIdx) >= 1
                  /\ CheckedIdx = SupportedIdx
                  /\ \A k \in 1..Len(crlCalls) : CallClean(crlCalls[k]))

\* Valid after two clean checks, with an unsupported URL in the list.
C3_Witness ==
    /\ crlPC = "done"
    /\ Status(crlResult) = "Valid"
    /\ Len(crlCalls) = 2
    /\ Len(crlDPs) = 3

\* ------------------------------------------------------------ C4
\* C4: only supported URLs are ever checked; a non-empty list without a
\* supported URL gives "No CRL endpoints we support found" with no call made;
\* an Unknown result comes only from a failed call; and when supported URLs are
\* present the result is the one their checks give, whatever else is listed.
C4_UnsupportedSkipped ==
    /\ \A k \in 1..Len(crlCalls) : crlCalls[k].url \in SupportedURLs
    /\ IsPrefix(CheckedIdx, SupportedIdx)
    /\ Status(crlResult) = "Unknown" =>
          \E k \in 1..Len(crlCalls) : CallFailed(crlCalls[k])
    /\ (crlPC = "done" /\ Len(crlDPs) >= 1 /\ Len(SupportedIdx) = 0) =>
          /\ crlResult = [text |-> "No CRL endpoints we support found", arg |-> ""]
          /\ crlCalls = <<>>
    /\ (crlPC = "done" /\ Len(SupportedIdx) >= 1) =>
          LET last == crlCalls[Len(crlCalls)]
          IN /\ Len(crlCalls) >= 1
             /\ CallFailed(last) => Status(crlResult) = "Unknown"
             /\ CallRevoked(last) =>
                   crlResult = [text |-> "Revoked by", arg |-> last.url]
             /\ CallClean(last) =>
                   /\ CheckedIdx = SupportedIdx
                   /\ Status(crlResult) = "Valid"

\* A list of three URLs, none of them supported, has been gone through.
C4_Witness ==
    /\ crlPC = "done"
    /\ Len(crlDPs) = 3
    /\ Len(SupportedIdx) = 0
    /\ Status(crlResult) = "NotApplicable"

\* ------------------------------------------------------------ C10
\* C10: within one CRL check no endpoint is fetched more than once, also when
\* the list names an endpoint more than once; the OCSP check makes at most one
\* call.
C10_EachEndpointOnce ==
    /\ \A j, k \in 1..Len(crlCalls) : j # k => crlCalls[j].url # crlCalls[k].url
    /\ Len(ocspCalls) <= 1

\* ------------------------------------------------------------ C5
\* C5: the issuer used for OCSP is the supplied CA whenever one is present, and
\* the last intermediate only when no CA is supplied. "Present" is read the way
\* describeOCSP itself tests it (more than one byte of ca).
C5_IssuerIsCAWhenPresent ==
    ocspIssuer # "" =>
        ocspIssuer = IF ByteLen(ocspCA) > 1
                     THEN ocspCA
                     ELSE ocspInter[Len(ocspInter)]

\* ------------------------------------------------------------ C6
\* C6: describeOCSP returns NotApplicable exactly when neither a CA nor an
\* intermediate is supplied, Unknown "cannot parse" when the selected issuer
\* bytes do not decode, and in both cases checkOCSPValidCert is never called.
C6_NoIssuerOrUndecodable ==
    ocspPC = "done" =>
        /\ Status(ocspResult) = "NotApplicable"
              <=> (ByteLen(ocspCA) = 0 /\ Len(ocspInter) = 0)
        /\ (ocspIssuer # "" /\ DecodeX509CertificateBytes(ocspIssuer).err # Nil) =>
              ocspResult.text = "Cannot parse intermediate certificate:"
        /\ (\/ Status(ocspResult) = "NotApplicable"
            \/ ocspResult.text = "Cannot parse intermediate certificate:") =>
              ocspCalls = <<>>

\* ------------------------------------------------------------ C7
\* C7: with the issuer decoded, describeOCSP makes one call and its result is
\* fixed by what the call returns: an error gives "Cannot check OCSP: <err>"
\* (Unknown) whatever `valid` holds, no error and not valid gives "Marked as
\* revoked", no error and valid gives "valid".
C7_ResultFollowsExchange ==
    (ocspPC = "done" /\ ocspIssuer # ""
        /\ DecodeX509CertificateBytes(ocspIssuer).err = Nil) =>
        /\ Len(ocspCalls) = 1
        /\ LET c == ocspCalls[1]
           IN /\ CallFailed(c) =>
                    /\ ocspResult = [text |-> "Cannot check OCSP:", arg |-> c.err]
                    /\ Status(ocspResult) = "Unknown"
              /\ CallRevoked(c) =>
                    /\ ocspResult.text = "Marked as revoked"
                    /\ Status(ocspResult) = "Revoked"
              /\ CallClean(c) =>
                    /\ ocspResult.text = "valid"
                    /\ Status(ocspResult) = "Valid"

\* The exchange failed although `valid` came back true.
C7_Witness ==
    /\ ocspPC = "done"
    /\ Len(ocspCalls) = 1
    /\ CallFailed(ocspCalls[1])
    /\ ocspCalls[1].valid

\* ------------------------------------------------------------ C8
\* The certificates an evaluation was given as intermediates.
SuppliedIntermediates(p) ==
    UNION {AppendCertsFromPEM(tInter[p][i]) : i \in 1..Len(tInter[p])}

\* C8: the verdict is "yes" exactly when the leaf verifies with the system
\* store plus the supplied CA as the only anchors and the supplied
\* intermediates as untrusted helpers.
C8_AnchorsAreSystemPlusCA ==
    \A p \in Evals :
        (tPC[p] = "done" /\ tResult[p].text # "Error getting system CA store:") =>
            (tResult[p].text = "yes"
                <=> Verify(leaf, [Roots |-> SystemRoots \cup AppendCertsFromPEM(tCA[p]),
                                  Intermediates |-> SuppliedIntermediates(p)]) = Nil)

\* ------------------------------------------------------------ C9
\* C9: the system store is never changed, and under every interleaving the
\* pool of an evaluation holds the system roots and certificates supplied to
\* that evaluation only; when it verifies, all its intermediates are in.
C9_PoolIsolation ==
    /\ heap[0] = SystemRoots
    /\ \A p \in Evals :
          poolRef[p] # NoRef =>
              /\ poolRef[p] # 0
              /\ \A q \in Evals : q # p => poolRef[q] # poolRef[p]
              /\ SystemRoots \subseteq heap[poolRef[p]]
              /\ heap[poolRef[p]] \subseteq SystemRoots \cup SuppliedIntermediates(p)
              /\ tPC[p] = "done" =>
                    heap[poolRef[p]] = SystemRoots \cup SuppliedIntermediates(p)

\* Two evaluations are in their loops at once, each having added a certificate
\* the other was not given.
C9_Witness ==
    /\ tPC[1] = "loop" /\ tPC[2] = "loop"
    /\ "I1" \in heap[poolRef[1]] /\ "I3" \notin heap[poolRef[1]]
    /\ "I3" \in heap[poolRef[2]] /\ "I1" \notin heap[poolRef[2]]
    /\ "I3" \notin SuppliedIntermediates(1)
    /\ "I1" \notin SuppliedIntermediates(2)

====
